---- MODULE Spec2Model ----
(***************************************************************************)
(* Model of main(单线程).py: the batch driver main(), the page-by-page     *)
(* crawl crawl_cnki_indicators() and the sink save_indicators_to_db().     *)
(* The remote site is the environment: what a page holds, whether the      *)
(* next-page control is enabled and which awaited browser call fails are   *)
(* chosen nondeterministically.                                            *)
(***************************************************************************)
EXTENDS Integers, Sequences, FiniteSets, TLC

\* ------------------------------------------------------------------ bounds
\* Largest page budget handed to crawl_cnki_indicators (main passes 5).
MaxBudget == 5
\* Number of rows of tasks.xlsx.
NumTasks == 2
\* Longest cell text handed to get_clean_text on its own.
MaxTextLen == 5

\* len(cells) < 8 excludes a row.
MinCells == 8

\* ------------------------------------------------------------- text model
\* A text is a sequence of one-character strings.
WS == {" ", "\t"}

RECURSIVE lstrip(_)
lstrip(s) ==
    IF s = <<>> THEN <<>>
    ELSE IF Head(s) \in WS THEN lstrip(Tail(s)) ELSE s

RECURSIVE rstrip(_)
rstrip(s) ==
    IF s = <<>> THEN <<>>
    ELSE IF s[Len(s)] \in WS THEN rstrip(SubSeq(s, 1, Len(s) - 1)) ELSE s

\* str.strip()
strip(s) == rstrip(lstrip(s))

RECURSIVE split_acc(_, _, _)
split_acc(s, cur, out) ==
    IF s = <<>> THEN (IF cur = <<>> THEN out ELSE Append(out, cur))
    ELSE IF Head(s) \in WS
         THEN split_acc(Tail(s), <<>>, IF cur = <<>> THEN out ELSE Append(out, cur))
         ELSE split_acc(Tail(s), Append(cur, Head(s)), out)

\* str.split() without arguments: the maximal runs of non-whitespace.
split(s) == split_acc(s, <<>>, <<>>)

RECURSIVE join(_, _)
\* sep.join(words)
join(sep, words) ==
    IF words = <<>> THEN <<>>
    ELSE IF Len(words) = 1 THEN words[1]
    ELSE words[1] \o sep \o join(sep, Tail(words))

RECURSIVE CollapsePairs(_)
\* str.replace('  ', ' '): one pass over the non-overlapping pairs of spaces
CollapsePairs(s) ==
    IF Len(s) < 2 THEN s
    ELSE IF s[1] = " " /\ s[2] = " " THEN <<" ">> \o CollapsePairs(SubSeq(s, 3, Len(s)))
    ELSE <<s[1]>> \o CollapsePairs(Tail(s))

\* A cleaner that halves the runs of spaces once instead of splitting.
get_clean_text_OnePass(text) == strip(CollapsePairs(text))

\* get_clean_text: ' '.join(text.split()).strip()
get_clean_text(text) == strip(join(<<" ">>, split(text)))

\* ------------------------------------------------------ the rendered DOM
\* A candidate row (a tbody > tr handle) as the browser reports it:
\*   box    bounding_box(): exists = FALSE stands for None
\*   cells  the inner_text of each td, in column order
\*   icon   whether the row holds the download control
\*   dl     what clicking the control does within the 5 s window: "event" (a
\*          download starts), "timeout" (nothing starts), "late" (a download
\*          starts after the window closed), "clickfail" (the click raises)
\*   cancel whether download.cancel() succeeds ("ok") or raises ("fails")
\*   url    the download's url
\*   fault  "handle": the awaited calls on the handle raise (the element is
\*          gone); "icon": the lookup of the download control raises
Box(h) == [exists |-> TRUE, height |-> h]
NoBox == [exists |-> FALSE, height |-> 0]

Cells(time, indicator) ==
    << <<"#">>, time, <<"C", "N">>, indicator, <<"1", " ", "0">>, <<"%">>, <<"s">>, <<"9">> >>

Dom(box, cells, icon, dl, cancel, url) ==
    [box |-> box, cells |-> cells, icon |-> icon, dl |-> dl, cancel |-> cancel, url |-> url,
     fault |-> "none"]

Faulty(row, fault) == [row EXCEPT !.fault = fault]

Plain(t) == Dom(Box(20), Cells(<<t>>, <<"G", "D", "P">>), "absent", "timeout", "ok", "")
WithIcon(t, dl, cancel) ==
    Dom(Box(20), Cells(<<t>>, <<"G", "D", "P">>), "present", dl, cancel, "u" \o t)

RowNoBox == Dom(NoBox, Cells(<<"1">>, <<"G", "D", "P">>), "present", "event", "ok", "uN")
RowZero == Dom(Box(0), Cells(<<"1">>, <<"G", "D", "P">>), "present", "event", "ok", "uZ")
RowShort ==
    Dom(Box(20), << <<"#">>, <<"1">>, <<"C", "N">>, <<"G", "D", "P">>, <<"1">> >>,
        "present", "event", "ok", "uS")
RowBlank == Dom(Box(20), Cells(<<"1">>, <<" ", "\t">>), "present", "event", "ok", "uB")
RowEmptyInd == Dom(Box(20), Cells(<<"1">>, <<>>), "present", "event", "ok", "uE")
\* whitespace inside and around the texts, nine cells
RowSpaced ==
    Dom(Box(12),
        << <<"#">>, <<" ", "2", "\t", " ", "3">>, <<"C", "N", " ">>,
           <<"\t", "a", " ", " ", "b", " ">>, <<"1">>, <<>>, <<"s">>, <<"9">>, <<"x">> >>,
        "present", "event", "ok", "u2")
\* a data row whose time cell is blank
RowNoTime == Dom(Box(20), Cells(<<" ">>, <<"G", "D", "P">>), "absent", "timeout", "ok", "")

\* a page that changes under the crawl
PageBroken == << Plain("7"), Faulty(Plain("8"), "icon"), Faulty(Plain("9"), "handle") >>
PageMixed ==
    << RowNoBox, RowSpaced, RowShort, WithIcon("3", "timeout", "ok"), RowBlank,
       WithIcon("4", "late", "ok"), WithIcon("5", "event", "fails"),
       WithIcon("6", "clickfail", "ok"), RowNoTime >>
\* ten candidates: two of height zero, one of five cells, one without
\* indicator text, six data rows
PageTen ==
    << RowZero, Plain("1"), Plain("2"), RowShort, RowZero, Plain("3"),
       RowEmptyInd, WithIcon("4", "event", "ok"), Plain("5"), Plain("6") >>

\* What query_selector_all('tbody > tr') may return.
PageSet == {PageMixed, PageTen, PageBroken}

\* ------------------------------------------------------------ row validator
\* `if not box or box['height'] == 0: continue`
BoxOk(box) == box.exists /\ box.height # 0

\* `if len(cells) < 8: continue`
CellsOk(cells) == Len(cells) >= MinCells

\* The content check without the strip.
IndicatorOk_Unstripped(cells) == cells[4] # <<>>

\* `if not indicator_text.strip(): continue`   (cells[3], 0-indexed)
IndicatorOk(cells) == strip(cells[4]) # <<>>

\* The three checks, short-circuiting in the order of the code.
Validates(row_handle) ==
    /\ BoxOk(row_handle.box)
    /\ CellsOk(row_handle.cells)
    /\ IndicatorOk(row_handle.cells)

\* row_data as built before the download step.
Extract(row_handle) ==
    LET cells == row_handle.cells IN
    [time |-> get_clean_text(cells[2]),
     region |-> get_clean_text(cells[3]),
     indicator |-> strip(cells[4]),
     value |-> get_clean_text(cells[5]),
     unit |-> get_clean_text(cells[6]),
     source |-> get_clean_text(cells[7]),
     page_no |-> get_clean_text(cells[8]),
     download_url |-> ""]

\* ------------------------------------------------------ download capture
\* The try block around expect_download: what it leaves behind.
\*   url       row_data['download_url'] afterwards
\*   clicked   excel_icon.click() was called
\*   started   the browser started a download
\*   cancelled download.cancel() completed
\*   caught    the except clause ran
TryCapture(row_handle) ==
    CASE row_handle.dl = "clickfail" ->
           [url |-> "", clicked |-> TRUE, started |-> FALSE, cancelled |-> FALSE, caught |-> TRUE]
      [] row_handle.dl = "timeout" ->
           [url |-> "", clicked |-> TRUE, started |-> FALSE, cancelled |-> FALSE, caught |-> TRUE]
      [] row_handle.dl = "late" ->
           [url |-> "", clicked |-> TRUE, started |-> TRUE, cancelled |-> FALSE, caught |-> TRUE]
      [] row_handle.dl = "event" /\ row_handle.cancel = "ok" ->
           [url |-> row_handle.url, clicked |-> TRUE, started |-> TRUE, cancelled |-> TRUE,
            caught |-> FALSE]
      [] row_handle.dl = "event" /\ row_handle.cancel = "fails" ->
           [url |-> row_handle.url, clicked |-> TRUE, started |-> TRUE, cancelled |-> FALSE,
            caught |-> TRUE]

NoCapture == [url |-> "", clicked |-> FALSE, started |-> FALSE, cancelled |-> FALSE, caught |-> FALSE]

\* The download step run whatever the flag says.
Capture_IgnoresFlag(links, row_handle) ==
    IF row_handle.icon = "present" THEN TryCapture(row_handle) ELSE NoCapture

\* `if get_download_links:` ... `if excel_icon:` ... try/except
Capture(links, row_handle) ==
    IF links /\ row_handle.icon = "present" THEN TryCapture(row_handle) ELSE NoCapture

\* ------------------------------------------------------------------- sink
\* UNIQUE(indicator, region, time, source, page_no, download_url)
Key(rec) ==
    <<rec.indicator, rec.region, rec.time, rec.source, rec.page_no, rec.download_url>>

\* One record of `records`: the task's meta columns followed by the row's.
Record(meta, r) ==
    [meta |-> meta, time |-> r.time, region |-> r.region, indicator |-> r.indicator,
     value |-> r.value, unit |-> r.unit, source |-> r.source, page_no |-> r.page_no,
     download_url |-> r.download_url]

\* A plain INSERT into a table without the UNIQUE constraint.
InsertOrIgnore_NoUnique(table, rec) == table \cup {rec}

\* INSERT OR REPLACE: the stored row with the key gives way to the new one.
InsertOrIgnore_Replace(table, rec) ==
    {old \in table : Key(old) # Key(rec)} \cup {rec}

\* INSERT OR IGNORE of one record.
InsertOrIgnore(table, rec) ==
    IF \E old \in table : Key(old) = Key(rec) THEN table ELSE table \cup {rec}

RECURSIVE executemany(_, _)
\* cursor.executemany(INSERT OR IGNORE ..., records), in list order
executemany(table, records) ==
    IF records = <<>> THEN table
    ELSE executemany(InsertOrIgnore(table, Head(records)), Tail(records))

\* The rows one execution of the statement changed.
Changes(table, rec) == IF InsertOrIgnore(table, rec) = table THEN 0 ELSE 1

RECURSIVE rowcount(_, _)
\* cursor.rowcount after executemany: the changes of the executions, summed
rowcount(table, records) ==
    IF records = <<>> THEN 0
    ELSE Changes(table, Head(records))
           + rowcount(InsertOrIgnore(table, Head(records)), Tail(records))

\* How many records executemany had run when it raised: none, one, or all
\* but the last.
FailAt(records) == {0, 1, Len(records) - 1}

\* A connection left in autocommit mode: what was executed stays.
AfterClose_Autocommit(before, tx) == tx

\* conn.close() in the finally clause without a commit: the open transaction
\* is rolled back and the table is as it was before the call.
AfterClose(before, tx) == before

\* All records but the last.
Records_DropLast(rows, p) == [i \in 1..(Len(rows) - 1) |-> Record(p.indicateName, rows[i])]

\* `records` of save_indicators_to_db
Records(rows, p) == [i \in 1..Len(rows) |-> Record(p.indicateName, rows[i])]

\* ------------------------------------------------------------------ state
VARIABLES
    maxpages,                 \* main: maxpages
    get_download_links,       \* main: GET_DOWNLOAD_LINKS
    mpc,                      \* main: where the driver stands
    taskIdx,                  \* main: position in tasks_df (1-based)
    params,                   \* main: the current task's row
    store,                    \* the cnki_indicators table
    cpc,                      \* crawl: where the coroutine stands
    pw,                       \* crawl: the async_playwright() context
    browser,                  \* crawl: the launched browser
    page_num,                 \* crawl: loop variable
    all_rows,                 \* crawl: all_rows
    candidate_rows,           \* crawl: candidate_rows of the current page
    rowIdx,                   \* crawl: position of the row loop (1-based)
    validated_rows_for_page,  \* crawl: validated_rows_for_page
    exc,                      \* crawl: the pending exception ("none" if none)
    attempted,                \* history: task indices started, in order
    pagesSeen,                \* history: candidate lists of the pages whose rows all_rows holds
    lost,                     \* history: rows all_rows held when an exception dropped it
    loads,                    \* history: pages loaded by this task (goto, next clicks)
    sortClicks,               \* history: clicks on the sort control in this task
    clicks,                   \* history: clicks on download controls in this task
    inflight,                 \* history: downloads started and not cancelled in this task
    stop,                     \* history: why the page loop ended
    sinkCalls,                \* history: save_indicators_to_db calls of this task
    save_ret,                 \* history: what the call returned, <<n>>; <<>> for None or no return
    outcome,                  \* history: how the driver left the last task
    npc,                      \* get_clean_text: where the evaluation of a text stands
    norm_text,                \* get_clean_text: the text handed in
    norm_once,                \* get_clean_text: its result
    norm_twice                \* get_clean_text: the result for that result

cfgVars == <<maxpages, get_download_links>>
mainVars == <<mpc, taskIdx, params, store>>
crawlVars ==
    <<cpc, pw, browser, page_num, all_rows, candidate_rows, rowIdx,
      validated_rows_for_page, exc>>
histVars ==
    <<attempted, pagesSeen, lost, loads, sortClicks, clicks, inflight, stop, sinkCalls,
      save_ret, outcome>>
normVars == <<npc, norm_text, norm_once, norm_twice>>
vars == <<cfgVars, mainVars, crawlVars, histVars, normVars>>

\* sort_by == '相关度'
Similarity == "similarity"

\* The rows tasks.xlsx may hold.
TaskSet ==
    {[indicateName |-> "n1", sort |-> Similarity], [indicateName |-> "n2", sort |-> ""]}

NoParams == [indicateName |-> "", sort |-> ""]

Init ==
    /\ maxpages \in 0..MaxBudget
    /\ get_download_links \in BOOLEAN
    /\ mpc = "for"
    /\ taskIdx = 1
    /\ params = NoParams
    /\ store = {}
    /\ cpc = "idle"
    /\ pw = "none"
    /\ browser = "none"
    /\ page_num = 0
    /\ all_rows = <<>>
    /\ candidate_rows = <<>>
    /\ rowIdx = 1
    /\ validated_rows_for_page = <<>>
    /\ exc = "none"
    /\ attempted = <<>>
    /\ pagesSeen = <<>>
    /\ lost = 0
    /\ loads = 0
    /\ sortClicks = 0
    /\ clicks = 0
    /\ inflight = 0
    /\ stop = "none"
    /\ sinkCalls = 0
    /\ save_ret = <<>>
    /\ outcome = "none"
    /\ npc = "off"
    /\ norm_text = <<>>
    /\ norm_once = <<>>
    /\ norm_twice = <<>>

\* ------------------------------------------------------------ main: driver
\* One iteration of `for index, task in tasks_df.iterrows()` up to the call
\* of crawl_cnki_indicators: all_rows = [] and the coroutine starts.
StartTask ==
    /\ mpc = "for"
    /\ taskIdx <= NumTasks
    /\ \E p \in TaskSet : params' = p
    /\ mpc' = "crawl"
    /\ cpc' = "launch"
    /\ pw' = "none"
    /\ browser' = "none"
    /\ page_num' = 0
    /\ all_rows' = <<>>
    /\ candidate_rows' = <<>>
    /\ rowIdx' = 1
    /\ validated_rows_for_page' = <<>>
    /\ exc' = "none"
    /\ attempted' = Append(attempted, taskIdx)
    /\ pagesSeen' = <<>>
    /\ lost' = 0
    /\ loads' = 0
    /\ sortClicks' = 0
    /\ clicks' = 0
    /\ inflight' = 0
    /\ stop' = "none"
    /\ sinkCalls' = 0
    /\ save_ret' = <<>>
    /\ outcome' = "running"
    /\ UNCHANGED <<normVars, cfgVars, taskIdx, store>>

\* ------------------------------------------------- crawl_cnki_indicators
\* async with async_playwright() as p: browser = await p.chromium.launch(...)
Launch ==
    /\ mpc = "crawl" /\ cpc = "launch"
    /\ \E ok \in BOOLEAN :
         IF ok
         THEN /\ pw' = "running" /\ browser' = "open" /\ cpc' = "new_page"
              /\ exc' = exc
         ELSE /\ pw' = "stopped" /\ browser' = browser /\ cpc' = "raised"
              /\ exc' = "launch"
    /\ UNCHANGED <<normVars, cfgVars, mainVars, histVars, page_num, all_rows, candidate_rows, rowIdx,
                   validated_rows_for_page>>

\* page = await browser.new_page(): before the try statement, so a failure
\* leaves through the async with alone, which stops the Playwright driver.
NewPage ==
    /\ mpc = "crawl" /\ cpc = "new_page"
    /\ \E ok \in BOOLEAN :
         IF ok
         THEN /\ cpc' = "for_page" /\ pw' = pw /\ exc' = exc
         ELSE /\ cpc' = "raised" /\ pw' = "stopped" /\ exc' = "new_page"
    /\ UNCHANGED <<normVars, cfgVars, mainVars, histVars, browser, page_num, all_rows, candidate_rows,
                   rowIdx, validated_rows_for_page>>

\* A loop that runs one iteration too many.
InBudget_OffByOne(n, budget) == n <= budget

\* `for page_num in range(maxpages)`: whether another iteration runs.
InBudget(n, budget) == n < budget

\* An iteration that navigates to the target URL whatever its index.
ForPage_AlwaysGoto ==
    /\ mpc = "crawl" /\ cpc = "for_page"
    /\ IF InBudget(page_num, maxpages)
       THEN /\ cpc' = "goto"
            /\ stop' = stop
       ELSE /\ cpc' = "finally"
            /\ stop' = "budget"
    /\ UNCHANGED <<normVars, cfgVars, mainVars, pw, browser, page_num, all_rows, candidate_rows, rowIdx,
                   validated_rows_for_page, exc, attempted, pagesSeen, lost, loads, sortClicks,
                   clicks, inflight, sinkCalls, save_ret, outcome>>

ForPage ==
    /\ mpc = "crawl" /\ cpc = "for_page"
    /\ IF InBudget(page_num, maxpages)
       THEN /\ cpc' = IF page_num = 0 THEN "goto" ELSE "next"
            /\ stop' = stop
       ELSE /\ cpc' = "finally"
            /\ stop' = "budget"
    /\ UNCHANGED <<normVars, cfgVars, mainVars, pw, browser, page_num, all_rows, candidate_rows, rowIdx,
                   validated_rows_for_page, exc, attempted, pagesSeen, lost, loads, sortClicks,
                   clicks, inflight, sinkCalls, save_ret, outcome>>

\* await page.goto(final_url, wait_until="networkidle")
Goto ==
    /\ mpc = "crawl" /\ cpc = "goto"
    /\ \E ok \in BOOLEAN :
         IF ok
         THEN /\ loads' = loads + 1
              /\ cpc' = IF params.sort = Similarity THEN "sort" ELSE "wait_rows"
              /\ exc' = exc
         ELSE /\ loads' = loads /\ cpc' = "finally" /\ exc' = "goto"
    /\ UNCHANGED <<normVars, cfgVars, mainVars, pw, browser, page_num, all_rows, candidate_rows, rowIdx,
                   validated_rows_for_page, attempted, pagesSeen, lost, sortClicks, clicks,
                   inflight, stop, sinkCalls, save_ret, outcome>>

\* The sort block: every failure inside it is caught and printed.
SortOutcomes == {"absent", "clicked", "query_raises", "click_raises", "settle_raises"}

\* The sort block without its try/except: a failure inside it leaves the loop.
Sort_Uncaught ==
    /\ mpc = "crawl" /\ cpc = "sort"
    /\ \E o \in SortOutcomes :
         /\ sortClicks' = IF o \in {"clicked", "click_raises", "settle_raises"}
                          THEN sortClicks + 1 ELSE sortClicks
         /\ IF o \in {"absent", "clicked"}
            THEN cpc' = "wait_rows" /\ exc' = exc
            ELSE cpc' = "finally" /\ exc' = "sort"
    /\ UNCHANGED <<normVars, cfgVars, mainVars, pw, browser, page_num, all_rows, candidate_rows, rowIdx,
                   validated_rows_for_page, attempted, pagesSeen, lost, loads, clicks,
                   inflight, stop, sinkCalls, save_ret, outcome>>

Sort ==
    /\ mpc = "crawl" /\ cpc = "sort"
    /\ \E o \in SortOutcomes :
         sortClicks' = IF o \in {"clicked", "click_raises", "settle_raises"}
                       THEN sortClicks + 1 ELSE sortClicks
    /\ cpc' = "wait_rows"
    /\ UNCHANGED <<normVars, cfgVars, mainVars, pw, browser, page_num, all_rows, candidate_rows, rowIdx,
                   validated_rows_for_page, exc, attempted, pagesSeen, lost, loads, clicks,
                   inflight, stop, sinkCalls, save_ret, outcome>>

\* A missing `break`: the iteration goes on to wait for rows.
AfterNoNext_FallsThrough == "wait_rows"

\* `if not next_button: ... break` leaves the loop for the finally clause.
AfterNoNext == "finally"

\* next_button = await page.query_selector('.btn-next:not([disabled])')
\* if not next_button: break
NextQuery ==
    /\ mpc = "crawl" /\ cpc = "next"
    /\ \E o \in {"enabled", "absent", "raises"} :
         CASE o = "enabled" -> cpc' = "click_next" /\ stop' = stop /\ exc' = exc
           [] o = "absent" -> cpc' = AfterNoNext /\ stop' = "no_next" /\ exc' = exc
           [] o = "raises" -> cpc' = "finally" /\ stop' = stop /\ exc' = "next_query"
    /\ UNCHANGED <<normVars, cfgVars, mainVars, pw, browser, page_num, all_rows, candidate_rows, rowIdx,
                   validated_rows_for_page, attempted, pagesSeen, lost, loads, sortClicks, clicks,
                   inflight, sinkCalls, save_ret, outcome>>

\* await next_button.click(); await page.wait_for_load_state("networkidle")
NextClick ==
    /\ mpc = "crawl" /\ cpc = "click_next"
    /\ \E o \in {"ok", "click_raises", "settle_timeout"} :
         CASE o = "ok" -> cpc' = "wait_rows" /\ loads' = loads + 1 /\ exc' = exc
           [] o = "click_raises" -> cpc' = "finally" /\ loads' = loads /\ exc' = "next_click"
           [] o = "settle_timeout" -> cpc' = "finally" /\ loads' = loads + 1 /\ exc' = "settle"
    /\ UNCHANGED <<normVars, cfgVars, mainVars, pw, browser, page_num, all_rows, candidate_rows, rowIdx,
                   validated_rows_for_page, attempted, pagesSeen, lost, sortClicks, clicks,
                   inflight, stop, sinkCalls, save_ret, outcome>>

\* await page.wait_for_selector('tbody > tr', timeout=10000)
WaitRows ==
    /\ mpc = "crawl" /\ cpc = "wait_rows"
    /\ \E ok \in BOOLEAN :
         IF ok
         THEN cpc' = "query" /\ exc' = exc
         ELSE cpc' = "finally" /\ exc' = "row_wait"
    /\ UNCHANGED <<normVars, cfgVars, mainVars, histVars, pw, browser, page_num, all_rows,
                   candidate_rows, rowIdx, validated_rows_for_page>>

\* candidate_rows = await page.query_selector_all('tbody > tr')
\* validated_rows_for_page = []
QueryRows ==
    /\ mpc = "crawl" /\ cpc = "query"
    /\ \E pg \in PageSet : candidate_rows' = pg
    /\ validated_rows_for_page' = <<>>
    /\ rowIdx' = 1
    /\ cpc' = "rows"
    /\ UNCHANGED <<normVars, cfgVars, mainVars, histVars, pw, browser, page_num, all_rows, exc>>

\* One iteration of `for row_handle in candidate_rows`: the three checks,
\* the extraction, the download step and the append. The awaited calls of
\* the checks raise on a handle whose element is gone; the lookup of the
\* download control stands before the try statement, so its failure leaves
\* the loop as well.
ProcessRow ==
    /\ mpc = "crawl" /\ cpc = "rows"
    /\ rowIdx <= Len(candidate_rows)
    /\ LET row_handle == candidate_rows[rowIdx] IN
         CASE row_handle.fault = "handle" ->
                /\ cpc' = "finally"
                /\ exc' = "row"
                /\ UNCHANGED <<validated_rows_for_page, clicks, inflight, rowIdx>>
           [] row_handle.fault # "handle" /\ ~Validates(row_handle) ->
                /\ rowIdx' = rowIdx + 1
                /\ UNCHANGED <<validated_rows_for_page, clicks, inflight, cpc, exc>>
           [] /\ row_handle.fault = "icon"
              /\ Validates(row_handle)
              /\ get_download_links ->
                /\ cpc' = "finally"
                /\ exc' = "icon_lookup"
                /\ UNCHANGED <<validated_rows_for_page, clicks, inflight, rowIdx>>
           [] OTHER ->
                LET cap == Capture(get_download_links, row_handle)
                    row_data == [Extract(row_handle) EXCEPT !.download_url = cap.url]
                IN /\ validated_rows_for_page' = Append(validated_rows_for_page, row_data)
                   /\ clicks' = IF cap.clicked THEN clicks + 1 ELSE clicks
                   /\ inflight' = IF cap.started /\ ~cap.cancelled
                                  THEN inflight + 1 ELSE inflight
                   /\ rowIdx' = rowIdx + 1
                   /\ UNCHANGED <<cpc, exc>>
    /\ UNCHANGED <<normVars, cfgVars, mainVars, pw, browser, page_num, all_rows, candidate_rows,
                   attempted, pagesSeen, lost, loads, sortClicks, stop, sinkCalls, save_ret, outcome>>

\* The page's rows put in front of the earlier ones.
Extend_InFront(acc, batch) == batch \o acc

\* all_rows.extend(validated_rows_for_page)
Extend(acc, batch) == acc \o batch

\* all_rows.extend(validated_rows_for_page); await asyncio.sleep(1)
EndPage ==
    /\ mpc = "crawl" /\ cpc = "rows"
    /\ rowIdx > Len(candidate_rows)
    /\ all_rows' = Extend(all_rows, validated_rows_for_page)
    /\ pagesSeen' = Append(pagesSeen, candidate_rows)
    /\ page_num' = page_num + 1
    /\ cpc' = "for_page"
    /\ UNCHANGED <<normVars, cfgVars, mainVars, pw, browser, candidate_rows, rowIdx,
                   validated_rows_for_page, exc, attempted, lost, loads, sortClicks,
                   clicks, inflight, stop, sinkCalls, save_ret, outcome>>

\* A finally clause that returns what was collected and so swallows the
\* pending exception.
Finally_Swallows ==
    /\ mpc = "crawl" /\ cpc = "finally"
    /\ browser' = "closed"
    /\ pw' = "stopped"
    /\ cpc' = "returned"
    /\ lost' = 0
    /\ page_num' = 0
    /\ candidate_rows' = <<>>
    /\ rowIdx' = 1
    /\ validated_rows_for_page' = <<>>
    /\ UNCHANGED <<normVars, cfgVars, mainVars, all_rows, pagesSeen, exc, attempted, loads, sortClicks,
                   clicks, inflight, stop, sinkCalls, save_ret, outcome>>

\* finally: await browser.close(); then the async with ends and either
\* `return all_rows` hands the list to the caller or the pending exception
\* goes on to the caller and the frame, all_rows included, is dropped.
Finally ==
    /\ mpc = "crawl" /\ cpc = "finally"
    /\ browser' = "closed"
    /\ pw' = "stopped"
    /\ cpc' = IF exc = "none" THEN "returned" ELSE "raised"
    /\ all_rows' = IF exc = "none" THEN all_rows ELSE <<>>
    /\ pagesSeen' = IF exc = "none" THEN pagesSeen ELSE <<>>
    /\ lost' = IF exc = "none" THEN 0 ELSE Len(all_rows)
    /\ page_num' = 0
    /\ candidate_rows' = <<>>
    /\ rowIdx' = 1
    /\ validated_rows_for_page' = <<>>
    /\ UNCHANGED <<normVars, cfgVars, mainVars, exc, attempted, loads, sortClicks, clicks, inflight,
                   stop, sinkCalls, save_ret, outcome>>

\* ------------------------------------------------------ main: after crawl
\* rows is empty: `if rows:` skips the sink.
TaskEmpty ==
    /\ mpc = "crawl" /\ cpc = "returned"
    /\ all_rows = <<>>
    /\ mpc' = "for"
    /\ taskIdx' = taskIdx + 1
    /\ outcome' = "empty"
    /\ UNCHANGED <<normVars, cfgVars, params, store, crawlVars, attempted, pagesSeen, lost, loads,
                   sortClicks, clicks, inflight, stop, sinkCalls, save_ret>>

\* save_indicators_to_db(rows, params): "ok" commits the batch; with
\* "insert_error" executemany raises sqlite3.Error, which is caught inside and
\* the connection is closed uncommitted; with "connect_raises"
\* sqlite3.connect raises, which main's except clause catches.
SaveOutcomes == {"ok", "insert_error", "connect_raises"}

TaskSave ==
    /\ mpc = "crawl" /\ cpc = "returned"
    /\ all_rows # <<>>
    /\ LET records == Records(all_rows, params) IN
       \E o \in SaveOutcomes :
         \/ /\ o = "ok"
            /\ store' = executemany(store, records)
            /\ save_ret' = <<rowcount(store, records)>>
            /\ outcome' = "saved"
         \/ /\ o = "insert_error"
            /\ \E k \in FailAt(records) :
                 store' = AfterClose(store, executemany(store, SubSeq(records, 1, k)))
            /\ save_ret' = <<>>
            /\ outcome' = "sink_error"
         \/ /\ o = "connect_raises"
            /\ store' = store
            /\ save_ret' = <<>>
            /\ outcome' = "sink_raised"
    /\ sinkCalls' = sinkCalls + 1
    /\ mpc' = "for"
    /\ taskIdx' = taskIdx + 1
    /\ UNCHANGED <<normVars, cfgVars, params, crawlVars, attempted, pagesSeen, lost, loads,
                   sortClicks, clicks, inflight, stop>>

\* An except clause that does not match: the exception leaves main.
TaskExcept_Escapes ==
    /\ mpc = "crawl" /\ cpc = "raised"
    /\ mpc' = "crashed"
    /\ outcome' = "crawl_error"
    /\ UNCHANGED <<normVars, cfgVars, taskIdx, params, store, crawlVars, attempted, pagesSeen, lost,
                   loads, sortClicks, clicks, inflight, stop, sinkCalls, save_ret>>

\* except Exception as e: print(...); continue
TaskExcept ==
    /\ mpc = "crawl" /\ cpc = "raised"
    /\ mpc' = "for"
    /\ taskIdx' = taskIdx + 1
    /\ outcome' = "crawl_error"
    /\ UNCHANGED <<normVars, cfgVars, params, store, crawlVars, attempted, pagesSeen, lost, loads,
                   sortClicks, clicks, inflight, stop, sinkCalls, save_ret>>

\* print("--- All tasks completed. ---")
Finish ==
    /\ mpc = "for"
    /\ taskIdx > NumTasks
    /\ mpc' = "done"
    /\ UNCHANGED <<normVars, cfgVars, taskIdx, params, store, crawlVars, histVars>>

Next ==
    \/ StartTask
    \/ Launch
    \/ NewPage
    \/ ForPage
    \/ Goto
    \/ Sort
    \/ NextQuery
    \/ NextClick
    \/ WaitRows
    \/ QueryRows
    \/ ProcessRow
    \/ EndPage
    \/ Finally
    \/ TaskEmpty
    \/ TaskSave
    \/ TaskExcept
    \/ Finish

Spec == Init /\ [][Next]_vars

\* ------------------------------------------------- get_clean_text alone
\* The characters of a cell text: a letter and the two kinds of whitespace.
Alphabet == {"a", " ", "\t"}

\* Every text of at most MaxTextLen characters.
Texts == UNION {[1..n -> Alphabet] : n \in 0..MaxTextLen}

\* No task runs; a cell text is about to be cleaned.
NormInit ==
    /\ npc = "start"
    /\ norm_text \in Texts
    /\ norm_once = <<>>
    /\ norm_twice = <<>>
    /\ maxpages = 0
    /\ get_download_links = FALSE
    /\ mpc = "for"
    /\ taskIdx = 1
    /\ params = NoParams
    /\ store = {}
    /\ cpc = "idle"
    /\ pw = "none"
    /\ browser = "none"
    /\ page_num = 0
    /\ all_rows = <<>>
    /\ candidate_rows = <<>>
    /\ rowIdx = 1
    /\ validated_rows_for_page = <<>>
    /\ exc = "none"
    /\ attempted = <<>>
    /\ pagesSeen = <<>>
    /\ lost = 0
    /\ loads = 0
    /\ sortClicks = 0
    /\ clicks = 0
    /\ inflight = 0
    /\ stop = "none"
    /\ sinkCalls = 0
    /\ save_ret = <<>>
    /\ outcome = "none"

\* get_clean_text(text)
Normalize ==
    /\ npc = "start"
    /\ norm_once' = get_clean_text(norm_text)
    /\ npc' = "once"
    /\ UNCHANGED <<norm_text, norm_twice, cfgVars, mainVars, crawlVars, histVars>>

\* get_clean_text of what get_clean_text returned
Renormalize ==
    /\ npc = "once"
    /\ norm_twice' = get_clean_text(norm_once)
    /\ npc' = "twice"
    /\ UNCHANGED <<norm_text, norm_once, cfgVars, mainVars, crawlVars, histVars>>

NormNext ==
    \/ Normalize
    \/ Renormalize

NormSpec == NormInit /\ [][NormNext]_vars

\* ================================================================ properties
\* The statements below are written from the specification's wording and do
\* not reuse the validator of the model.

RECURSIVE Flatten(_)
Flatten(pages) == IF pages = <<>> THEN <<>> ELSE Head(pages) \o Flatten(Tail(pages))

Rendered(row) == row.box.exists /\ row.box.height > 0
HasEightCells(row) == Len(row.cells) >= 8
HasIndicatorText(row) ==
    /\ Len(row.cells) >= 4
    /\ \E k \in 1..Len(row.cells[4]) : row.cells[4][k] \notin WS
Excluded(row) == ~Rendered(row) \/ ~HasEightCells(row) \/ ~HasIndicatorText(row)
Passing(row) == ~Excluded(row)

\* The candidates a result sequence stems from, in crawl order.
SourcesOf(cands) == SelectSeq(cands, Passing)

WithoutUrl(rows) == [i \in 1..Len(rows) |-> [rows[i] EXCEPT !.download_url = ""]]

\* The rows the passing candidates of `cands` give, download URL left aside.
ExpectedRows(cands) ==
    LET src == SourcesOf(cands) IN [i \in 1..Len(src) |-> Extract(src[i])]

CrawlEnded == cpc \in {"returned", "raised"}

\* ---- C1 ----------------------------------------------------------------
PagesWithinBudget ==
    /\ page_num <= maxpages
    /\ Len(pagesSeen) <= maxpages
    /\ loads <= maxpages

\* The positions of a running call; from each of them the code goes on as
\* soon as its awaited call completes or times out.
CrawlPositions ==
    {"launch", "new_page", "for_page", "goto", "sort", "next", "click_next", "wait_rows",
     "query", "rows", "finally"}

LongestPage == CHOOSE pg \in PageSet : \A q \in PageSet : Len(q) <= Len(pg)

\* A measure of the work a running call has left: the iterations still
\* allowed by the budget, then the steps left in the current iteration.
CrawlRank ==
    LET w == Len(LongestPage) + 8
        base == (maxpages - page_num) * w
    IN CASE cpc = "launch" -> (maxpages + 1) * w + 3
         [] cpc = "new_page" -> (maxpages + 1) * w + 2
         [] cpc = "for_page" -> base + 7
         [] cpc \in {"goto", "next"} -> base + 6
         [] cpc \in {"sort", "click_next"} -> base + 5
         [] cpc = "wait_rows" -> base + 4
         [] cpc = "query" -> base + 3
         [] cpc = "rows" -> base + 2 - rowIdx
         [] cpc = "finally" -> 1
         [] OTHER -> 0

CrawlRunning == mpc = "crawl" /\ ~CrawlEnded

\* C1: whatever the budget and however long the next-page control stays
\* enabled, a call of crawl_cnki_indicators loads and collects at most
\* maxpages pages, and it ends (returns or raises) after a bounded number of
\* steps: each step of a running call lowers a non-negative measure.
C1_BudgetBoundsCrawl ==
    /\ [](PagesWithinBudget /\ (CrawlRunning => cpc \in CrawlPositions /\ CrawlRank > 0))
    /\ [][CrawlRunning => (CrawlRank' < CrawlRank /\ CrawlRank' >= 0)]_vars

\* The control stayed enabled and the budget ended the loop.
C1_Witness ==
    /\ cpc = "returned"
    /\ stop = "budget"
    /\ maxpages >= 3
    /\ Len(pagesSeen) = maxpages
    /\ loads = maxpages

\* ---- C2 ----------------------------------------------------------------
\* C2: once an iteration with page index >= 1 finds no enabled next-page
\* control, the loop is over: nothing is raised, no further page is loaded
\* and crawl returns the rows of the pages processed so far.
C2_NoNextEndsLoop ==
    (stop = "no_next" /\ mpc = "crawl") =>
        /\ exc = "none"
        /\ cpc \in {"finally", "returned"}
        /\ Len(pagesSeen) >= 1
        /\ loads = Len(pagesSeen)
        /\ WithoutUrl(all_rows) = ExpectedRows(Flatten(pagesSeen))

\* Budget 5, the control gone after page 3: the rows of 3 pages come back.
C2_Witness ==
    /\ stop = "no_next"
    /\ cpc = "returned"
    /\ maxpages = 5
    /\ Len(pagesSeen) = 3
    /\ all_rows # <<>>

\* ---- C3 ----------------------------------------------------------------
\* The errors the specification calls fatal for the task.
FatalErrors == {"goto", "row_wait", "settle"}

\* C3 as stated: after a fatal error on a later page the rows validated on
\* the pages before it are the task's partial result and reach the sink.
C3_PartialRowsReachSink ==
    (outcome = "crawl_error" /\ exc \in FatalErrors /\ lost > 0) => sinkCalls > 0

\* C3 as amended: from a fatal error on, no further page of the task is
\* loaded or collected, the exception leaves crawl so that the rows
\* validated before it are dropped (the sink is not called for the task and
\* the table stays as it was), and the driver goes on to the next task.
C3_FatalErrorDropsRows ==
    [][(mpc = "crawl" /\ exc \in FatalErrors) =>
          /\ store' = store
          /\ sinkCalls' = 0
          /\ loads' = loads
          /\ exc' = exc
          /\ cpc \in {"finally", "raised"}
          /\ cpc = "finally" => (cpc' = "raised" /\ lost' = Len(all_rows) /\ mpc' = "crawl")
          /\ cpc = "raised" => (all_rows = <<>> /\ mpc' = "for" /\ taskIdx' = taskIdx + 1)]_vars

\* A settlement timeout after rows had been collected; the driver moved on.
C3_Witness ==
    /\ outcome = "crawl_error"
    /\ exc = "settle"
    /\ lost > 0
    /\ mpc = "for"
    /\ taskIdx = 2
    /\ sinkCalls = 0

\* ---- C4 ----------------------------------------------------------------
\* C4: whichever tasks fail, in crawl or in the sink, the driver attempts
\* the tasks one by one in order, each once, no exception leaves the task
\* loop, and the final summary comes only after every task was attempted.
C4_FailureIsolation ==
    /\ [](/\ mpc \in {"for", "crawl", "done"}
          /\ attempted = [i \in 1..Len(attempted) |-> i]
          /\ mpc = "crawl" => (Len(attempted) = taskIdx /\ taskIdx <= NumTasks)
          /\ mpc = "for" => Len(attempted) = taskIdx - 1
          /\ mpc = "done" => Len(attempted) = NumTasks)
    /\ [][(mpc = "crawl" /\ CrawlEnded) => (mpc' = "for" /\ taskIdx' = taskIdx + 1)]_vars
    /\ [][mpc = "for" =>
            IF taskIdx <= NumTasks
            THEN mpc' = "crawl" /\ attempted' = Append(attempted, taskIdx)
            ELSE mpc' = "done"]_vars

\* The summary reached although every task failed: nothing was stored.
C4_Witness ==
    /\ mpc = "done"
    /\ maxpages > 0
    /\ store = {}
    /\ outcome \in {"crawl_error", "sink_raised"}

Handled == SubSeq(candidate_rows, 1, rowIdx - 1)

\* Some passing candidate among `cands` gives the result row r.
StemsFrom(r, cands) ==
    \E i \in 1..Len(cands) :
        Passing(cands[i]) /\ [r EXCEPT !.download_url = ""] = Extract(cands[i])

\* C6: a candidate without rendered box or of height zero, with fewer than
\* 8 cells, or with an empty or whitespace-only 4th cell yields no row: the
\* step that handles it appends nothing, every row of the page's batch stems
\* from a handled candidate that passes the three checks, and the result
\* grows by such batches alone.
C6_ExcludedRowsDropped ==
    /\ [][(/\ cpc = "rows"
           /\ rowIdx <= Len(candidate_rows)
           /\ Excluded(candidate_rows[rowIdx])) =>
             /\ validated_rows_for_page' = validated_rows_for_page
             /\ all_rows' = all_rows]_vars
    /\ [](\A i \in 1..Len(validated_rows_for_page) :
             StemsFrom(validated_rows_for_page[i], Handled))
    /\ [][\/ all_rows' = all_rows
          \/ all_rows' = <<>>
          \/ /\ cpc = "rows"
             /\ Handled = candidate_rows
             /\ all_rows' = all_rows \o validated_rows_for_page]_vars

\* A page whose candidates fail each of the three checks has been gone
\* through, after a page with rows of height zero.
C6_Witness ==
    /\ cpc = "rows"
    /\ pagesSeen = <<PageTen>>
    /\ candidate_rows = PageMixed
    /\ rowIdx = Len(PageMixed) + 1
    /\ Len(validated_rows_for_page) = 6
    /\ Len(all_rows) = 6

\* ---- C7 ----------------------------------------------------------------
RECURSIVE ConcatPages(_)
\* The per-page validated sequences, one after the other in page order.
ConcatPages(pages) ==
    IF pages = <<>> THEN <<>>
    ELSE ExpectedRows(Head(pages)) \o ConcatPages(Tail(pages))

\* C7: the result is the concatenation, in page order, of each processed
\* page's passing candidates in DOM order, each once (stated where a page
\* has just been added and where the call has returned: all_rows changes
\* nowhere else).
C7_ResultIsConcatenation ==
    cpc \in {"for_page", "returned"} => WithoutUrl(all_rows) = ConcatPages(pagesSeen)

\* Two different pages collected; the page of ten candidates gave six rows.
C7_Witness ==
    /\ cpc = "returned"
    /\ pagesSeen = <<PageTen, PageMixed>>
    /\ Len(PageTen) = 10
    /\ Len(all_rows) = 12
    /\ WithoutUrl(SubSeq(all_rows, 1, 6)) = ExpectedRows(PageTen)

\* ---- C8 ----------------------------------------------------------------
\* The capture sequence of the row fails at some step.
CaptureFails(row) ==
    /\ row.icon = "present"
    /\ row.dl \in {"clickfail", "timeout", "late"} \/ row.cancel = "fails"

\* C8: with captureDownloads set, a failure at any step of a validated
\* row's capture sequence leaves no exception behind and the row is appended
\* with an empty downloadUrl.
C8_CaptureFailureKeepsRow ==
    /\ exc # "icon_lookup"
    /\ (cpc = "rows" /\ get_download_links) =>
          LET src == SourcesOf(Handled) IN
          \A i \in 1..Len(src) :
              CaptureFails(src[i]) =>
                  /\ i <= Len(validated_rows_for_page)
                  /\ validated_rows_for_page[i].download_url = ""

\* ---- C9 ----------------------------------------------------------------
\* C9: no download started by a click on a row's download control is left
\* uncancelled once the row is complete.
C9_NoDownloadLeftInFlight == inflight = 0

\* ---- C10 ---------------------------------------------------------------
\* downloadUrl of result row r, which stems from candidate c.
UrlAsCaptured(r, c) ==
    IF get_download_links /\ c.icon = "present" /\ c.dl = "event"
    THEN r.download_url = c.url
    ELSE r.download_url = ""

\* C10: a row's downloadUrl is non-empty only if captureDownloads is set,
\* the row has a download control and a download event was captured for it,
\* and then it is that download's URL; with captureDownloads unset no
\* download control is clicked and every downloadUrl is empty. (The result
\* is looked at where a page has just been added and where the call has
\* returned, the page's batch after every row.)
C10_UrlOnlyFromCapture ==
    /\ cpc \in {"for_page", "returned"} =>
          LET src == SourcesOf(Flatten(pagesSeen)) IN
          /\ Len(all_rows) = Len(src)
          /\ \A i \in 1..Len(all_rows) : UrlAsCaptured(all_rows[i], src[i])
    /\ cpc = "rows" =>
          LET cur == SourcesOf(Handled) IN
          /\ Len(validated_rows_for_page) = Len(cur)
          /\ \A i \in 1..Len(cur) : UrlAsCaptured(validated_rows_for_page[i], cur[i])
    /\ ~get_download_links => clicks = 0

\* A result holding a captured URL next to a row whose capture timed out.
C10_Witness ==
    LET src == SourcesOf(Flatten(pagesSeen)) IN
    /\ cpc = "returned"
    /\ get_download_links
    /\ clicks > 0
    /\ \E i \in 1..Len(all_rows) :
          /\ src[i].icon = "present" /\ src[i].dl = "event"
          /\ all_rows[i].download_url = src[i].url
          /\ all_rows[i].download_url # ""
    /\ \E i \in 1..Len(all_rows) :
          /\ src[i].icon = "present" /\ src[i].dl = "timeout"
          /\ all_rows[i].download_url = ""

\* ---- C11 ---------------------------------------------------------------
\* The composite key of a stored row or of a result row.
CompositeKey(r) == <<r.indicator, r.region, r.time, r.source, r.page_no, r.download_url>>

KeysOf(S) == {CompositeKey(x) : x \in S}

RowKeys(rows) == {CompositeKey(rows[i]) : i \in 1..Len(rows)}

\* A step in which save_indicators_to_db ran and returned a count.
SaveReturns == sinkCalls' = sinkCalls + 1 /\ outcome' = "saved"

\* Two rows with different keys, and two tasks.
RowA ==
    [time |-> <<"1">>, region |-> <<"r">>, indicator |-> <<"a">>, value |-> <<"v">>,
     unit |-> <<"u">>, source |-> <<"s">>, page_no |-> <<"p">>, download_url |-> ""]

RowB == [RowA EXCEPT !.indicator = <<"b">>]

TaskOne == [indicateName |-> "n1", sort |-> Similarity]

TaskTwo == [indicateName |-> "n2", sort |-> ""]

\* Saving {A} and then {A, B} returns 1 and then 1.
SavingAThenAB ==
    LET first == executemany({}, Records(<<RowA>>, TaskOne)) IN
    /\ rowcount({}, Records(<<RowA>>, TaskOne)) = 1
    /\ rowcount(first, Records(<<RowA, RowB>>, TaskTwo)) = 1
    /\ Cardinality(executemany(first, Records(<<RowA, RowB>>, TaskTwo))) = 2

\* C11: the table never holds two rows with the same composite key
\* (indicator, region, time, source, pageNo, downloadUrl); a save call that
\* carries stored keys does not raise and leaves their rows' count as it
\* was; and every save call returns the number of rows it newly inserted,
\* whatever task the earlier calls came from (saving {A} and then {A, B}
\* returns 1 and then 1).
C11_SinkDeduplicates ==
    /\ [](Cardinality(KeysOf(store)) = Cardinality(store))
    /\ [](SavingAThenAB)
    /\ [][SaveReturns =>
            /\ KeysOf(store') = KeysOf(store) \cup RowKeys(all_rows)
            /\ Cardinality(store')
                 = Cardinality(store) + Cardinality(RowKeys(all_rows) \ KeysOf(store))
            /\ save_ret' = <<Cardinality(store') - Cardinality(store)>>]_vars

\* A later task saved a batch of which some keys were stored already and
\* some were new: the count returned is that of the new ones only.
C11_Witness ==
    /\ mpc = "for" /\ outcome = "saved"
    /\ taskIdx >= 3
    /\ save_ret # <<>>
    /\ save_ret[1] > 0
    /\ save_ret[1] < Cardinality(RowKeys(all_rows))
    /\ Cardinality(store) > Cardinality(RowKeys(all_rows))

\* ---- C12 ---------------------------------------------------------------
\* C12: the sort step is not fatal. With similarity sorting requested,
\* whether the sort control is absent or looking it up, clicking it or
\* waiting for the page to settle fails, nothing is raised and crawl goes on
\* to wait for and collect the rows of the first page; with sorting not
\* requested the sort control is neither looked up nor clicked.
C12_SortIsNonFatal ==
    /\ [](exc # "sort")
    /\ [](cpc = "sort" =>
            /\ params.sort = Similarity
            /\ page_num = 0 /\ loads = 1 /\ all_rows = <<>>
            /\ exc = "none")
    /\ []((mpc = "crawl" /\ params.sort # Similarity) => (sortClicks = 0 /\ cpc # "sort"))
    /\ [][cpc = "sort" =>
            /\ cpc' = "wait_rows"
            /\ exc' = "none"
            /\ mpc' = "crawl"
            /\ UNCHANGED <<page_num, loads, all_rows, pagesSeen, store>>]_vars

\* Sorting was requested, the control was never clicked (it was absent or
\* the lookup failed), and the rows of the first page were collected.
C12_Witness ==
    /\ cpc = "returned"
    /\ params.sort = Similarity
    /\ sortClicks = 0
    /\ Len(pagesSeen) >= 1
    /\ all_rows # <<>>
    /\ WithoutUrl(all_rows) = ExpectedRows(Flatten(pagesSeen))

\* ---- C13 ---------------------------------------------------------------
\* The rows built so far: the result and the batch of the current page.
RowsBuilt ==
    {all_rows[i] : i \in 1..Len(all_rows)}
        \cup {validated_rows_for_page[i] : i \in 1..Len(validated_rows_for_page)}

\* C13: every row of the result, and every row built for it, has a
\* non-empty time, a non-empty region and a non-empty indicator.
C13_RequiredFieldsNonEmpty ==
    \A r \in RowsBuilt : r.time # <<>> /\ r.region # <<>> /\ r.indicator # <<>>

\* ---- C14 ---------------------------------------------------------------
\* Whitespace as the specification's normal form sees it.
Blank == {" ", "\t"}

\* No whitespace at either end, and inside only single spaces.
NormalForm(f) ==
    \/ f = <<>>
    \/ /\ f[1] \notin Blank
       /\ f[Len(f)] \notin Blank
       /\ \A i \in 1..(Len(f) - 1) : f[i] \in Blank => (f[i] = " " /\ f[i + 1] \notin Blank)

\* C14: each of the seven textual fields of every row built (time, region,
\* indicator, value, unit, source, pageNo) is in normal form: no leading or
\* trailing whitespace and every internal run of whitespace a single space.
C14_FieldsInNormalForm ==
    \A r \in RowsBuilt :
        /\ NormalForm(r.time) /\ NormalForm(r.region) /\ NormalForm(r.indicator)
        /\ NormalForm(r.value) /\ NormalForm(r.unit) /\ NormalForm(r.source)
        /\ NormalForm(r.page_no)

\* ---- C15 ---------------------------------------------------------------
\* C15: normalization is idempotent: for every text over the alphabet,
\* whitespace included, normalizing the normalized text gives the
\* normalized text again.
C15_NormalizeIdempotent == npc = "twice" => norm_twice = norm_once

\* A text with whitespace at the start and a mixed run inside went through
\* twice.
C15_Witness ==
    /\ npc = "twice"
    /\ norm_text = <<"\t", "a", " ", "\t", "a">>
    /\ norm_once = <<"a", " ", "a">>
    /\ norm_twice = <<"a", " ", "a">>

InLoop == mpc = "crawl" /\ cpc \in {"goto", "sort", "next", "click_next", "wait_rows", "query", "rows"}

\* C17 as stated, for the navigation: every run of crawl navigates to the
\* target URL exactly once, so a run that returned has loaded a page.
C17_EveryRunNavigates == (mpc = "crawl" /\ cpc = "returned") => loads >= 1

\* C17 as amended: navigation happens at most once and before anything else
\* is done with the page (not at all with a budget of 0 or when the browser
\* or the page could not be created); the sort control is clicked at most
\* once, after the navigation and before any row is collected; the
\* next-page control is neither looked up nor clicked in iteration 0 and is
\* clicked exactly once before the rows of each later page are collected;
\* rows are collected only after the row wait succeeded; and after the last
\* page the budget allows the next-page control is not clicked again.
C17_PageStateMachine ==
    /\ [](InLoop =>
            /\ page_num < maxpages
            /\ loads <= maxpages
            /\ sortClicks <= 1
            /\ cpc = "goto" =>
                  (page_num = 0 /\ loads = 0 /\ sortClicks = 0 /\ all_rows = <<>>)
            /\ cpc = "sort" =>
                  (page_num = 0 /\ loads = 1 /\ sortClicks = 0 /\ all_rows = <<>>
                     /\ candidate_rows = <<>>)
            /\ cpc \in {"next", "click_next"} => (page_num >= 1 /\ loads = page_num)
            /\ cpc \in {"query", "rows"} => loads = page_num + 1)
    /\ [][mpc = "crawl" /\ cpc' = "goto" => (cpc = "for_page" /\ page_num = 0 /\ loads = 0)]_vars
    /\ [][mpc = "crawl" /\ loads' # loads =>
            /\ loads' = loads + 1
            /\ \/ cpc = "goto" /\ loads = 0
               \/ cpc = "click_next" /\ page_num >= 1 /\ page_num < maxpages]_vars
    /\ [][mpc = "crawl" /\ sortClicks' # sortClicks =>
            (cpc = "sort" /\ sortClicks' = 1 /\ loads = 1 /\ all_rows = <<>>)]_vars
    /\ [][mpc = "crawl" /\ cpc' = "query" => (cpc = "wait_rows" /\ exc' = "none")]_vars
    /\ [][mpc = "crawl" /\ candidate_rows' # candidate_rows /\ candidate_rows' # <<>> =>
            cpc = "query"]_vars
    /\ [][mpc = "crawl" /\ cpc = "for_page" /\ page_num >= maxpages =>
            (cpc' = "finally" /\ loads' = loads)]_vars

\* Three pages under a budget of three, sorted by similarity: one
\* navigation, one sort click, two next-page clicks, none after page three.
C17_Witness ==
    /\ cpc = "returned"
    /\ maxpages = 3
    /\ stop = "budget"
    /\ sortClicks = 1
    /\ loads = 3
    /\ Len(pagesSeen) = 3

\* ---- C18 ---------------------------------------------------------------
\* C18: the sink is called at most once per task, only after crawl has
\* returned without an exception and with a non-empty result, and with all
\* the rows returned; an empty result means no call; and the table changes
\* in no step but such a call, so nothing is stored while crawl runs.
C18_SinkOncePerTask ==
    /\ [](sinkCalls <= 1)
    /\ []((mpc = "crawl" /\ cpc # "returned") => sinkCalls = 0)
    /\ [][sinkCalls' > sinkCalls =>
            /\ mpc = "crawl" /\ cpc = "returned"
            /\ exc = "none"
            /\ all_rows # <<>>
            /\ sinkCalls = 0]_vars
    /\ [][store' # store => (sinkCalls' = sinkCalls + 1 /\ cpc = "returned")]_vars
    /\ [][(sinkCalls' = sinkCalls + 1 /\ outcome' = "saved") =>
            /\ RowKeys(all_rows) \subseteq KeysOf(store')
            /\ \A rec \in store' \ store :
                  /\ rec.meta = params.indicateName
                  /\ \E i \in 1..Len(all_rows) :
                        /\ CompositeKey(rec) = CompositeKey(all_rows[i])
                        /\ rec.value = all_rows[i].value
                        /\ rec.unit = all_rows[i].unit]_vars
    /\ [][(mpc = "crawl" /\ cpc = "returned" /\ all_rows = <<>>) =>
            (sinkCalls' = 0 /\ store' = store /\ outcome' = "empty")]_vars

\* A task whose rows came from several pages was saved in one call.
C18_Witness ==
    /\ mpc = "for" /\ outcome = "saved"
    /\ sinkCalls = 1
    /\ Len(pagesSeen) >= 2
    /\ all_rows # <<>>
    /\ RowKeys(all_rows) \subseteq KeysOf(store)

\* ---- C19 ---------------------------------------------------------------
\* C19: the first writer wins. A stored record (its value, its unit and
\* the metadata of the task that stored it) stays as it is whatever is
\* saved later: a later row with the same composite key changes nothing,
\* even if its other fields or its task metadata differ.
C19_FirstWriterWins ==
    /\ [][store \subseteq store']_vars
    /\ [][\A rec \in store' \ store : CompositeKey(rec) \notin KeysOf(store)]_vars

\* A task saved a row whose key another task had stored with its own
\* metadata; the record of the first task is the one in the table.
C19_Witness ==
    /\ mpc = "for" /\ outcome = "saved"
    /\ \E rec \in store :
          /\ rec.meta # params.indicateName
          /\ CompositeKey(rec) \in RowKeys(all_rows)

\* ---- C20 ---------------------------------------------------------------
\* C20: a batch is stored entirely or not at all. When the insert raises
\* a storage error part-way, no row of the batch is in the table
\* afterwards, the error stays inside save_indicators_to_db, no count is
\* returned, and the driver goes on to the next task.
C20_BatchAllOrNothing ==
    /\ [][(sinkCalls' = sinkCalls + 1 /\ outcome' = "sink_error") =>
            /\ store' = store
            /\ save_ret' = <<>>
            /\ mpc' = "for"
            /\ taskIdx' = taskIdx + 1]_vars
    /\ [](outcome = "sink_error" => mpc \in {"for", "done"})

\* The first task was saved; the insert of the second failed, and of its
\* rows, some of them new, none is in the table.
C20_Witness ==
    /\ mpc = "for" /\ outcome = "sink_error"
    /\ attempted = <<1, 2>>
    /\ save_ret = <<>>
    /\ store # {}
    /\ Len(all_rows) >= 2
    /\ \E i \in 1..Len(all_rows) : CompositeKey(all_rows[i]) \notin KeysOf(store)

====
